---- MODULE Spec2Model ----
(***************************************************************************)
(* Attendance-slot engine of the face-attendance system.                   *)
(*                                                                         *)
(* The persistent store is the SQLite file attendance.db: the tables       *)
(* session_configs, students, holidays, slot_attendance, attendance and    *)
(* daily_attendance_summary.  Every request builds its own                 *)
(* AttendanceSlotManager (create_slot_manager_instance), i.e. its own      *)
(* connection and its own in-memory copy of the slot catalog.              *)
(*                                                                         *)
(* A time of day is a number of seconds since midnight.  A time string as  *)
(* the store keeps it ('HH:MM:00', or 'H:MM:00' when the administrator     *)
(* typed a one-digit hour) is a record [hh, mm, pad].                      *)
(***************************************************************************)
EXTENDS Integers, Sequences, FiniteSets, TLC

VARIABLES
  session_configs,   \* table session_configs: rows in rowid order
  students,          \* table students: id -> "active" | "inactive" | "none"
  holidays,          \* table holidays: set of dates
  slot_attendance,   \* table slot_attendance: sequence of committed rows
  attendance,        \* legacy table attendance: sequence of committed rows
  daily_summary,     \* table daily_attendance_summary: date -> row or NoRow
  db_writer,         \* connection holding SQLite's write lock, or NoWriter
  now,               \* wall clock: [day, tod]
  pc,                \* per worker: position inside the running call
  req,               \* per worker: the call's arguments and locals
  attendance_slots,  \* per connection: the manager's in-memory catalog
  txn,               \* per worker: rows written but not yet committed
  result,            \* per worker: the dict/tuple the call returned
  wrote,             \* per worker: ledger rows the running call committed
  calls,             \* number of ledger calls started so far
  response,          \* what the last catalog request returned
  ACTIVE_SESSIONS    \* the process's session map: token -> session or NoSession

vars == <<session_configs, students, holidays, slot_attendance, attendance,
          daily_summary, db_writer, now, pc, req, attendance_slots, txn,
          result, wrote, calls, response, ACTIVE_SESSIONS>>

----------------------------------------------------------------------------
(* Bounds of the model *)

MaxCalls == 2
MaxDay == 2

Procs == {"w1", "w2"}
Admin == "admin"
Conns == Procs \cup {Admin}
StudentIds == {1, 2}
Dates == 1 .. MaxDay
NoWriter == "nobody"
NoRow == [present |-> FALSE]

----------------------------------------------------------------------------
(* Time strings and their conversions *)

HM(h, m) == [hh |-> h, mm |-> m, pad |-> TRUE]     \* "HH:MM"
H1(h, m) == [hh |-> h, mm |-> m, pad |-> FALSE]    \* "H:MM", h < 10

\* datetime.strptime(s, '%H:%M') raises ValueError outside 00:00..23:59
valid_format(s) == s.hh \in 0 .. 23 /\ s.mm \in 0 .. 59

\* datetime.strptime(...).time(), as seconds since midnight
strptime(s) == s.hh * 3600 + s.mm * 60

\* the characters of the stored text s + ':00'; ':' sorts after every digit
Colon == 10
Chars(s) ==
  IF s.pad
    THEN <<s.hh \div 10, s.hh % 10, Colon, s.mm \div 10, s.mm % 10, Colon, 0, 0>>
    ELSE <<s.hh, Colon, s.mm \div 10, s.mm % 10, Colon, 0, 0>>

\* SQLite's BINARY collation on two TEXT values: a sorts strictly before b
RECURSIVE SeqLess(_, _)
SeqLess(a, b) ==
  IF b = <<>> THEN FALSE
  ELSE IF a = <<>> THEN TRUE
  ELSE IF Head(a) # Head(b) THEN Head(a) < Head(b)
  ELSE SeqLess(Tail(a), Tail(b))

TextLess(s, t) == SeqLess(Chars(s), Chars(t))


----------------------------------------------------------------------------
(* SlotCatalog: session_configs and the manager's in-memory copy *)

Row(type, s, e) == [session_type |-> type, start_time |-> s, end_time |-> e]

DefaultRows == <<Row("morning", HM(8, 45), HM(9, 30)),
                 Row("afternoon", HM(13, 45), HM(14, 30))>>

\* ORDER BY start_time: insertion sort of the rows, stable in rowid order
RECURSIVE InsertRow(_, _)
InsertRow(r, sorted) ==
  IF sorted = <<>> THEN <<r>>
  ELSE IF TextLess(r.start_time, Head(sorted).start_time)
         THEN <<r>> \o sorted
         ELSE <<Head(sorted)>> \o InsertRow(r, Tail(sorted))

RECURSIVE OrderByStart(_)
OrderByStart(rows) ==
  IF rows = <<>> THEN <<>>
  ELSE InsertRow(rows[Len(rows)], OrderByStart(SubSeq(rows, 1, Len(rows) - 1)))

\* load_session_configs: the dict attendance_slots, in insertion order
load_session_configs(rows) ==
  LET ordered == OrderByStart(rows)
  IN [i \in 1 .. Len(ordered) |->
        [slot_id |-> ordered[i].session_type,
         start_time |-> strptime(ordered[i].start_time),
         end_time |-> strptime(ordered[i].end_time)]]

ensure_default_configs_Completing(rows) ==
  IF Len(rows) < Len(DefaultRows) THEN DefaultRows ELSE rows

\* ensure_default_configs: the table after the constructor ran
ensure_default_configs(rows) == IF Len(rows) = 0 THEN DefaultRows ELSE rows

SlotKeys(slots) == {slots[i].slot_id : i \in 1 .. Len(slots)}

----------------------------------------------------------------------------
(* SlotResolver *)

None == [slot_key |-> "none", minutes |-> 0]

calculate_time_remaining_NoFloor(current_time, end_time) ==
  (end_time \div 60) - (current_time \div 60)

\* _calculate_time_remaining
calculate_time_remaining(current_time, end_time) ==
  LET current_minutes == current_time \div 60
      end_minutes == end_time \div 60
      d == end_minutes - current_minutes
  IN IF d > 0 THEN d ELSE 0

InSlot(slot, t) == slot.start_time <= t /\ t <= slot.end_time

\* get_current_slot: linear scan of the dict
RECURSIVE get_current_slot(_, _)
get_current_slot(slots, t) ==
  IF slots = <<>> THEN None
  ELSE IF InSlot(Head(slots), t)
         THEN [slot_key |-> Head(slots).slot_id,
               minutes |-> calculate_time_remaining(t, Head(slots).end_time)]
         ELSE get_current_slot(Tail(slots), t)

IsLater_NotStrict(start_minutes, current_minutes) ==
  start_minutes >= current_minutes

IsLater(start_minutes, current_minutes) == start_minutes > current_minutes

\* get_next_slot: the loop, with next_slot and min_wait_time as accumulator
RECURSIVE NextSlotLoop(_, _, _)
NextSlotLoop(slots, t, best) ==
  IF slots = <<>> THEN best
  ELSE LET current_minutes == t \div 60
           start_minutes == Head(slots).start_time \div 60
           wait_minutes == start_minutes - current_minutes
           better == IsLater(start_minutes, current_minutes)
                     /\ (best = None \/ wait_minutes < best.minutes)
       IN NextSlotLoop(Tail(slots), t,
            IF better
              THEN [slot_key |-> Head(slots).slot_id, minutes |-> wait_minutes]
              ELSE best)

get_next_slot(slots, t) == NextSlotLoop(slots, t, None)

----------------------------------------------------------------------------
(* Inputs *)

T(h, m, s) == h * 3600 + m * 60 + s

\* what an administrator types into the session-config form
UpdateTimes == {H1(9, 0), HM(10, 0), HM(11, 0), HM(24, 0)}
SessionTypes == {"morning", "afternoon", "evening"}

\* check_time values handed to get_current_slot / get_next_slot
QueryTimes == {T(8, 44, 30), T(8, 45, 0), T(9, 0, 0), T(9, 30, 0), T(9, 30, 30),
               T(10, 0, 0), T(12, 0, 0), T(14, 30, 0)}

\* the contents of session_configs the service may start with
MorningOnlyRows == <<Row("morning", HM(8, 45), HM(9, 30))>>
ThreeRows == DefaultRows \o <<Row("evening", HM(16, 0), HM(17, 0))>>
InitialCatalogs == {<<>>, MorningOnlyRows, ThreeRows}

NoResult == [kind |-> "none"]
NoReq == [kind |-> "none"]

\* session tokens (secrets.token_urlsafe(32)) and the cookie values a request
\* may carry; NoSession stands for a token that is not a key of the map
Tokens == {"t1", "t2"}
NoCookie == ""
Cookies == Tokens \cup {NoCookie}
UserTypes == {"admin", "user"}
NoSession == [user_type |-> "none"]
NoSessions == [tok \in Tokens |-> NoSession]

----------------------------------------------------------------------------
(* Initial state: the store as setup_database and the table initialisers   *)
(* leave it, with the configuration rows and the students it was given     *)

InitWith(catalogs) ==
  /\ session_configs \in catalogs
  /\ students = [s \in StudentIds |-> "active"]
  /\ holidays = {d \in Dates : d = 2}
  /\ slot_attendance = <<>>
  /\ attendance = <<>>
  /\ daily_summary = [d \in Dates |-> NoRow]
  /\ db_writer = NoWriter
  /\ now = [day |-> 1, tod |-> T(9, 0, 0)]
  /\ pc = [p \in Procs |-> "idle"]
  /\ req = [p \in Procs |-> NoReq]
  /\ attendance_slots = [c \in Conns |-> <<>>]
  /\ txn = [p \in Procs |-> [slot |-> <<>>, legacy |-> <<>>]]
  /\ result = [p \in Procs |-> NoResult]
  /\ wrote = [p \in Procs |-> 0]
  /\ calls = 0
  /\ response = NoResult
  /\ ACTIVE_SESSIONS = NoSessions

Init == InitWith(InitialCatalogs)

InitDefault == InitWith({DefaultRows})

----------------------------------------------------------------------------
(* Catalog requests; each runs on the event loop without yielding *)

ledger_vars == <<students, holidays, slot_attendance, attendance,
                 daily_summary, db_writer, now, pc, req, txn, result, wrote,
                 calls, ACTIVE_SESSIONS>>

RowsOfType(rows, type) ==
  {i \in 1 .. Len(rows) : rows[i].session_type = type}

Overlaps_WrongBound(new_start, new_end, other_start, other_end) ==
  ~(new_end <= other_start \/ new_start >= other_start)

\* the half-open interval test of update_session_timing
Overlaps(new_start, new_end, other_start, other_end) ==
  ~(new_end <= other_start \/ new_start >= other_end)

\* the session the overlap check looks at
OtherSession(session_type) ==
  IF session_type = "morning" THEN "afternoon" ELSE "morning"

invalid_range_EqualAllowed(s, e) == strptime(s) > strptime(e)

\* lines 231-232: if start >= end
invalid_range(s, e) == strptime(s) >= strptime(e)

\* update_session_timing: the returned (success, message), the table and
\* the manager's catalog after the call
UpdateOutcome(rows, session_type, s, e) ==
  LET unchanged(msg) == [ok |-> FALSE, msg |-> msg, rows |-> rows,
                         slots |-> load_session_configs(rows)]
      others == RowsOfType(rows, OtherSession(session_type))
      other_row == rows[CHOOSE i \in others : \A j \in others : i <= j]
      mine == RowsOfType(rows, session_type)
      updated == [i \in 1 .. Len(rows) |->
                    IF i \in mine
                      THEN [rows[i] EXCEPT !.start_time = s, !.end_time = e]
                      ELSE rows[i]]
  IN IF ~(valid_format(s) /\ valid_format(e)) THEN unchanged("invalid_format")
     ELSE IF invalid_range(s, e) THEN unchanged("invalid_range")
     ELSE IF others # {}
             /\ Overlaps(strptime(s), strptime(e),
                         strptime(other_row.start_time),
                         strptime(other_row.end_time))
       THEN unchanged("overlap")
     ELSE IF mine = {} THEN unchanged("not_found")
     ELSE [ok |-> TRUE, msg |-> "updated", rows |-> updated,
           slots |-> load_session_configs(updated)]

\* PUT /api/admin/session-config/{session_type}
update_session_timing(session_type, s, e) ==
  LET before == ensure_default_configs(session_configs)
      out == UpdateOutcome(before, session_type, s, e)
  IN /\ db_writer = NoWriter
     /\ session_configs' = out.rows
     /\ attendance_slots' = [attendance_slots EXCEPT ![Admin] = out.slots]
     /\ response' = [kind |-> "update", session_type |-> session_type,
                     start_time |-> s, end_time |-> e, before |-> before,
                     ok |-> out.ok, msg |-> out.msg, rows |-> out.rows,
                     slots |-> out.slots]
     /\ UNCHANGED ledger_vars

\* POST /api/admin/reload-slot-config
reload_config ==
  LET before == ensure_default_configs(session_configs)
  IN /\ session_configs = <<>> => db_writer = NoWriter
     /\ session_configs' = before
     /\ attendance_slots' = [attendance_slots EXCEPT
                               ![Admin] = load_session_configs(before)]
     /\ response' = [kind |-> "reload", before |-> before, rows |-> before,
                     slots |-> load_session_configs(before)]
     /\ UNCHANGED ledger_vars

\* get_current_slot(check_time) and get_next_slot(check_time) on a new manager
get_current_slot_info(t) ==
  LET before == ensure_default_configs(session_configs)
      slots == load_session_configs(before)
  IN /\ session_configs = <<>> => db_writer = NoWriter
     /\ session_configs' = before
     /\ attendance_slots' = [attendance_slots EXCEPT ![Admin] = slots]
     /\ response' = [kind |-> "slots", check_time |-> t, before |-> before,
                     rows |-> before, slots |-> slots,
                     current_slot |-> get_current_slot(slots, t),
                     next_slot |-> get_next_slot(slots, t)]
     /\ UNCHANGED ledger_vars

UpdateRequest ==
  \E type \in SessionTypes, s \in UpdateTimes, e \in UpdateTimes :
    update_session_timing(type, s, e)

SlotInfoRequest == \E t \in QueryTimes : get_current_slot_info(t)

NextCatalog == UpdateRequest \/ reload_config \/ SlotInfoRequest

SpecCatalog == Init /\ [][NextCatalog]_vars

SpecDefault == InitDefault /\ [][NextCatalog]_vars

----------------------------------------------------------------------------
(* AttendanceLedger: mark_attendance_with_slot, one step per statement that *)
(* other connections can observe                                            *)

ForceSlots == {"", "morning", "evening"}     \* "" is force_slot=None
ManualSessionTypes == {"morning"}
DeleteIds == {2}
MainTimes == {T(9, 0, 0), T(10, 0, 0)}

SlotRow(sid, d, k, manual) ==
  [student_id |-> sid, date |-> d, slot_id |-> k, is_manual |-> manual]

LegacyRow(sid, d) == [student_id |-> sid, date |-> d]

NoTransaction == [slot |-> <<>>, legacy |-> <<>>]

\* the rows of a table that carry the triple (sid, d, k)
HasMark(rows, sid, d, k) ==
  \E i \in 1 .. Len(rows) :
    rows[i].student_id = sid /\ rows[i].date = d /\ rows[i].slot_id = k

already_marked_OtherSlot(rows, sid, d, k) ==
  \E i \in 1 .. Len(rows) :
    rows[i].student_id = sid /\ rows[i].date = d /\ rows[i].slot_id # k

\* SELECT id FROM slot_attendance WHERE student_id = ? AND date = ? AND slot_id = ?
already_marked(rows, sid, d, k) ==
  \E i \in 1 .. Len(rows) :
    rows[i].student_id = sid /\ rows[i].date = d /\ rows[i].slot_id = k

unique_violation_NoConstraint(rows, r) == FALSE

\* UNIQUE(student_id, date, slot_id) of slot_attendance
unique_violation(rows, r) ==
  \E i \in 1 .. Len(rows) :
    /\ rows[i].student_id = r.student_id
    /\ rows[i].date = r.date
    /\ rows[i].slot_id = r.slot_id

Res(kind, slot, next, detail) ==
  [kind |-> kind, slot |-> slot, next_slot |-> next, detail |-> detail]

outside_slot_result_NoHint(slots, t) == Res("outside_slot", "", None, "")

\* lines 324-339: the refusal outside slot hours, with its next-slot hint
outside_slot_result(slots, t) ==
  Res("outside_slot", "", get_next_slot(slots, t), "")

Finish(p, r) ==
  /\ pc' = [pc EXCEPT ![p] = "done"]
  /\ result' = [result EXCEPT ![p] = r]

forced_slot_known_Always(force, slots) == TRUE

\* line 310: if force_slot not in self.attendance_slots
forced_slot_known(force, slots) == force \in SlotKeys(slots)

student_active_NoLookup(sid) == TRUE

\* line 346: SELECT ... FROM students WHERE id = ? AND status = "active"
student_active(sid) == students[sid] = "active"

\* lines 304-357: build the manager, read the clock, resolve the slot and
\* look the student up
mark_begin(p, sid, force) ==
  LET rows == ensure_default_configs(session_configs)
      slots == load_session_configs(rows)
      current_slot == IF force # ""
                        THEN [slot_key |-> force, minutes |-> 0]
                        ELSE get_current_slot(slots, now.tod)
      r == [kind |-> "mark", student_id |-> sid, force_slot |-> force,
            date |-> now.day, time |-> now.tod,
            slot_id |-> current_slot.slot_key]
  IN /\ pc[p] \in {"idle", "done"}
     /\ calls < MaxCalls
     /\ session_configs = <<>> => db_writer = NoWriter
     /\ calls' = calls + 1
     /\ session_configs' = rows
     /\ attendance_slots' = [attendance_slots EXCEPT ![p] = slots]
     /\ req' = [req EXCEPT ![p] = r]
     /\ wrote' = [wrote EXCEPT ![p] = 0]
     /\ IF force # "" /\ ~forced_slot_known(force, slots)
          THEN Finish(p, Res("invalid_slot", force, None, ""))
        ELSE IF current_slot = None
          THEN Finish(p, outside_slot_result(slots, now.tod))
        ELSE IF ~student_active(sid)
          THEN Finish(p, Res("student_not_found", "", None, ""))
        ELSE /\ pc' = [pc EXCEPT ![p] = "check"]
             /\ result' = [result EXCEPT ![p] = NoResult]
     /\ UNCHANGED <<students, holidays, slot_attendance, attendance,
                    daily_summary, db_writer, now, txn, response,
                    ACTIVE_SESSIONS>>

\* lines 359-373: the existence check
mark_check_existing(p) ==
  /\ pc[p] = "check"
  /\ IF already_marked(slot_attendance, req[p].student_id, req[p].date,
                       req[p].slot_id)
       THEN Finish(p, Res("already_marked", req[p].slot_id, None, ""))
       ELSE /\ pc' = [pc EXCEPT ![p] = "insert"]
            /\ UNCHANGED result
  /\ UNCHANGED <<session_configs, students, holidays, slot_attendance,
                 attendance, daily_summary, db_writer, now, req,
                 attendance_slots, txn, wrote, calls, response,
                 ACTIVE_SESSIONS>>

\* lines 375-388: the two INSERTs, inside the transaction they open; a
\* constraint violation raises and is reported by the handler of line 409
mark_insert(p) ==
  LET row == SlotRow(req[p].student_id, req[p].date, req[p].slot_id,
                     req[p].force_slot # "")
  IN /\ pc[p] = "insert"
     /\ db_writer = NoWriter
     /\ IF unique_violation(slot_attendance, row)
          THEN /\ Finish(p, Res("error", "", None, "unique"))
               /\ UNCHANGED <<txn, db_writer>>
          ELSE /\ txn' = [txn EXCEPT ![p] =
                            [slot |-> <<row>>,
                             legacy |-> <<LegacyRow(req[p].student_id,
                                                    req[p].date)>>]]
               /\ db_writer' = p
               /\ pc' = [pc EXCEPT ![p] = "commit"]
               /\ UNCHANGED result
     /\ UNCHANGED <<session_configs, students, holidays, slot_attendance,
                    attendance, daily_summary, now, req, attendance_slots,
                    wrote, calls, response, ACTIVE_SESSIONS>>

\* the INSERT times out on another connection's write lock
mark_insert_locked(p) ==
  /\ pc[p] = "insert"
  /\ db_writer \notin {NoWriter, p}
  /\ Finish(p, Res("error", "", None, "locked"))
  /\ UNCHANGED <<session_configs, students, holidays, slot_attendance,
                 attendance, daily_summary, db_writer, now, req,
                 attendance_slots, txn, wrote, calls, response,
                 ACTIVE_SESSIONS>>

\* line 390: self.conn.commit()
mark_commit(p) ==
  /\ pc[p] = "commit"
  /\ req[p].kind = "mark"
  /\ slot_attendance' = slot_attendance \o txn[p].slot
  /\ attendance' = attendance \o txn[p].legacy
  /\ wrote' = [wrote EXCEPT ![p] = wrote[p] + Len(txn[p].slot)]
  /\ txn' = [txn EXCEPT ![p] = NoTransaction]
  /\ db_writer' = NoWriter
  /\ pc' = [pc EXCEPT ![p] = "summary"]
  /\ UNCHANGED <<session_configs, students, holidays, daily_summary, now,
                 req, attendance_slots, result, calls, response,
                 ACTIVE_SESSIONS>>

mark_store_error_Committed(p) ==
  /\ pc[p] = "commit"
  /\ req[p].kind = "mark"
  /\ slot_attendance' = slot_attendance \o txn[p].slot
  /\ wrote' = [wrote EXCEPT ![p] = wrote[p] + Len(txn[p].slot)]
  /\ txn' = [txn EXCEPT ![p] = NoTransaction]
  /\ db_writer' = NoWriter
  /\ Finish(p, Res("error", "", None, "store"))
  /\ UNCHANGED <<session_configs, students, holidays, attendance,
                 daily_summary, now, req, attendance_slots, calls, response,
                 ACTIVE_SESSIONS>>

\* the store fails before the commit: line 409 reports it, and the
\* connection goes away with its transaction
mark_store_error(p) ==
  /\ pc[p] = "commit"
  /\ req[p].kind = "mark"
  /\ txn' = [txn EXCEPT ![p] = NoTransaction]
  /\ db_writer' = NoWriter
  /\ Finish(p, Res("error", "", None, "store"))
  /\ UNCHANGED <<session_configs, students, holidays, slot_attendance,
                 attendance, daily_summary, now, req, attendance_slots,
                 wrote, calls, response, ACTIVE_SESSIONS>>

----------------------------------------------------------------------------
(* DailySummaryProjector: update_daily_summary *)

ActiveStudents == {s \in StudentIds : students[s] = "active"}

PresentIn(rows, d, k) ==
  {rows[i].student_id : i \in {j \in 1 .. Len(rows) :
                                 rows[j].date = d /\ rows[j].slot_id = k}}

Present(rows, d) ==
  {rows[i].student_id : i \in {j \in 1 .. Len(rows) : rows[j].date = d}}

SummaryCounts_Incremental(d) ==
  [present |-> TRUE,
   total_students |-> Cardinality(ActiveStudents),
   present_morning |-> Cardinality(PresentIn(slot_attendance, d, "morning")),
   present_afternoon |-> Cardinality(PresentIn(slot_attendance, d, "afternoon")),
   total_present |-> IF daily_summary[d].present
                       THEN daily_summary[d].total_present + 1
                       ELSE 1]

\* the four SELECT COUNT queries of update_daily_summary
SummaryCounts(d) ==
  [present |-> TRUE,
   total_students |-> Cardinality(ActiveStudents),
   present_morning |-> Cardinality(PresentIn(slot_attendance, d, "morning")),
   present_afternoon |-> Cardinality(PresentIn(slot_attendance, d, "afternoon")),
   total_present |-> Cardinality(Present(slot_attendance, d))]

\* update_daily_summary, then the success dict of lines 397-407
summary_write(p) ==
  /\ pc[p] = "summary"
  /\ db_writer = NoWriter
  /\ daily_summary' = [daily_summary EXCEPT
                         ![req[p].date] = SummaryCounts(req[p].date)]
  /\ Finish(p, Res("success", req[p].slot_id, None, ""))
  /\ UNCHANGED <<session_configs, students, holidays, slot_attendance,
                 attendance, db_writer, now, req, attendance_slots, txn,
                 wrote, calls, response, ACTIVE_SESSIONS>>

\* lines 526-527: the write fails on a held lock and the error is swallowed
summary_failed(p) ==
  /\ pc[p] = "summary"
  /\ db_writer \notin {NoWriter, p}
  /\ Finish(p, Res("success", req[p].slot_id, None, ""))
  /\ UNCHANGED <<session_configs, students, holidays, slot_attendance,
                 attendance, daily_summary, db_writer, now, req,
                 attendance_slots, txn, wrote, calls, response,
                 ACTIVE_SESSIONS>>

----------------------------------------------------------------------------
(* mark_manual_session_attendance of the main service *)

\* lines 922-936: the existence check and the holiday check
manual_begin(p, sid, d, type) ==
  LET r == [kind |-> "manual", student_id |-> sid, force_slot |-> type,
            date |-> d, time |-> now.tod, slot_id |-> type]
  IN /\ pc[p] \in {"idle", "done"}
     /\ calls < MaxCalls
     /\ calls' = calls + 1
     /\ req' = [req EXCEPT ![p] = r]
     /\ wrote' = [wrote EXCEPT ![p] = 0]
     /\ IF already_marked(slot_attendance, sid, d, type)
          THEN Finish(p, Res("already_marked", type, None, ""))
        ELSE IF d \in holidays
          THEN Finish(p, Res("holiday", "", None, ""))
        ELSE /\ pc' = [pc EXCEPT ![p] = "m_insert"]
             /\ result' = [result EXCEPT ![p] = NoResult]
     /\ UNCHANGED <<session_configs, students, holidays, slot_attendance,
                    attendance, daily_summary, db_writer, now,
                    attendance_slots, txn, response, ACTIVE_SESSIONS>>

\* lines 938-944: the INSERT; an IntegrityError reaches the API handler
manual_insert(p) ==
  LET row == SlotRow(req[p].student_id, req[p].date, req[p].slot_id, TRUE)
  IN /\ pc[p] = "m_insert"
     /\ db_writer = NoWriter
     /\ IF unique_violation(slot_attendance, row)
          THEN /\ Finish(p, Res("error", "", None, "unique"))
               /\ UNCHANGED <<txn, db_writer>>
          ELSE /\ txn' = [txn EXCEPT ![p] = [slot |-> <<row>>, legacy |-> <<>>]]
               /\ db_writer' = p
               /\ pc' = [pc EXCEPT ![p] = "commit"]
               /\ UNCHANGED result
     /\ UNCHANGED <<session_configs, students, holidays, slot_attendance,
                    attendance, daily_summary, now, req, attendance_slots,
                    wrote, calls, response, ACTIVE_SESSIONS>>

manual_insert_locked(p) ==
  /\ pc[p] = "m_insert"
  /\ db_writer \notin {NoWriter, p}
  /\ Finish(p, Res("error", "", None, "locked"))
  /\ UNCHANGED <<session_configs, students, holidays, slot_attendance,
                 attendance, daily_summary, db_writer, now, req,
                 attendance_slots, txn, wrote, calls, response,
                 ACTIVE_SESSIONS>>

\* lines 946-947: commit and return
manual_commit(p) ==
  /\ pc[p] = "commit"
  /\ req[p].kind = "manual"
  /\ slot_attendance' = slot_attendance \o txn[p].slot
  /\ wrote' = [wrote EXCEPT ![p] = wrote[p] + Len(txn[p].slot)]
  /\ txn' = [txn EXCEPT ![p] = NoTransaction]
  /\ db_writer' = NoWriter
  /\ Finish(p, Res("success", req[p].slot_id, None, ""))
  /\ UNCHANGED <<session_configs, students, holidays, attendance,
                 daily_summary, now, req, attendance_slots, calls, response,
                 ACTIVE_SESSIONS>>

----------------------------------------------------------------------------
(* The rest of the service that touches the ledger's tables *)

delete_student_Cascade(s) ==
  /\ students[s] # "none"
  /\ db_writer = NoWriter
  /\ students' = [students EXCEPT ![s] = "none"]
  /\ attendance' = SelectSeq(attendance, LAMBDA r : r.student_id # s)
  /\ slot_attendance' = SelectSeq(slot_attendance, LAMBDA r : r.student_id # s)
  /\ UNCHANGED <<session_configs, holidays, daily_summary, db_writer, now,
                 pc, req, attendance_slots, txn, result, wrote, calls,
                 response, ACTIVE_SESSIONS>>

\* DELETE /api/students/{student_id}
delete_student(s) ==
  /\ students[s] # "none"
  /\ db_writer = NoWriter
  /\ students' = [students EXCEPT ![s] = "none"]
  /\ attendance' = SelectSeq(attendance, LAMBDA r : r.student_id # s)
  /\ UNCHANGED <<session_configs, holidays, slot_attendance, daily_summary,
                 db_writer, now, pc, req, attendance_slots, txn, result,
                 wrote, calls, response, ACTIVE_SESSIONS>>

\* the wall clock moves on
Tick ==
  /\ \E t \in MainTimes : t > now.tod /\ now' = [now EXCEPT !.tod = t]
  /\ UNCHANGED <<session_configs, students, holidays, slot_attendance,
                 attendance, daily_summary, db_writer, pc, req,
                 attendance_slots, txn, result, wrote, calls, response,
                 ACTIVE_SESSIONS>>

MarkStep(p) ==
  \/ \E sid \in StudentIds, force \in ForceSlots : mark_begin(p, sid, force)
  \/ mark_check_existing(p)
  \/ mark_insert(p)
  \/ mark_insert_locked(p)
  \/ mark_commit(p)
  \/ mark_store_error(p)
  \/ summary_write(p)
  \/ summary_failed(p)

ManualStep(p) ==
  \/ \E sid \in StudentIds, d \in Dates, type \in ManualSessionTypes :
       manual_begin(p, sid, d, type)
  \/ manual_insert(p)
  \/ manual_insert_locked(p)
  \/ manual_commit(p)

Next ==
  \/ \E p \in Procs : MarkStep(p)
  \/ \E p \in Procs : ManualStep(p)
  \/ \E s \in DeleteIds : delete_student(s)
  \/ Tick

Spec == Init /\ [][Next]_vars

----------------------------------------------------------------------------
(* Properties of the ledger *)

Containing(slots, t) ==
  {i \in 1 .. Len(slots) :
     slots[i].start_time <= t /\ t <= slots[i].end_time}

Triple(r) == <<r.student_id, r.date, r.slot_id>>

\* C1: in every reachable state the ledger holds at most one mark for each
\* (student_id, date, slot_id), whatever the interleaving of mark,
\* forced-slot mark and mark_manual calls.
C1_AtMostOneMarkPerTriple ==
  \A i, j \in 1 .. Len(slot_attendance) :
    i # j => Triple(slot_attendance[i]) # Triple(slot_attendance[j])

\* two calls for one triple both passed the existence check; the store
\* turned the second INSERT away
C1_Witness ==
  \E p \in Procs :
    /\ pc[p] = "done"
    /\ result[p].kind = "error"
    /\ result[p].detail = "unique"
    /\ HasMark(slot_attendance, req[p].student_id, req[p].date, req[p].slot_id)

ReachedCheck(p) ==
  /\ pc[p] = "done"
  /\ req[p].kind = "mark"
  /\ result[p].kind \in {"success", "already_marked", "error"}
  /\ result[p].detail \notin {"locked", "store"}

\* C2: of the mark calls that ran concurrently for one student, date and
\* slot, one returns success and every other one returns the already-marked
\* result, never a generic error.
C2_LosersGetAlreadyMarked ==
  \A p, q \in Procs :
    (/\ p # q
     /\ ReachedCheck(p) /\ ReachedCheck(q)
     /\ Triple(req[p]) = Triple(req[q])
     /\ result[p].kind = "success")
    => result[q].kind = "already_marked"

\* C3: a mark call that runs its existence check while the ledger holds a
\* mark for its triple ends with the already-marked result, which names the
\* slot, and leaves the ledger and the daily summary as they were.
C3_RepeatIsAlreadyMarked ==
  [][\A p \in Procs :
       (/\ pc[p] = "check"
        /\ pc'[p] # "check"
        /\ HasMark(slot_attendance, req[p].student_id, req[p].date,
                   req[p].slot_id))
       => /\ pc'[p] = "done"
          /\ result'[p].kind = "already_marked"
          /\ result'[p].slot = req[p].slot_id
          /\ slot_attendance' = slot_attendance
          /\ daily_summary' = daily_summary]_vars

\* a repeated mark was answered with the already-marked result
C3_Witness ==
  \E p \in Procs :
    /\ pc[p] = "done"
    /\ req[p].kind = "mark"
    /\ result[p].kind = "already_marked"
    /\ HasMark(slot_attendance, req[p].student_id, req[p].date, req[p].slot_id)

SummaryMatches(d) ==
  /\ daily_summary[d].present
  /\ daily_summary[d].present_morning
       = Cardinality(PresentIn(slot_attendance, d, "morning"))
  /\ daily_summary[d].present_afternoon
       = Cardinality(PresentIn(slot_attendance, d, "afternoon"))
  /\ daily_summary[d].total_present
       = Cardinality(Present(slot_attendance, d))

\* C5: once no call is in flight, the stored daily summary of every date
\* with a committed mark equals the recomputation from that date's marks,
\* whichever write path produced them.
C5_SummaryFollowsEveryMark ==
  (\A p \in Procs : pc[p] \in {"idle", "done"})
  => \A d \in Dates : Present(slot_attendance, d) # {} => SummaryMatches(d)

\* C6: a mark call without forced slot, made at a time no catalog slot
\* contains, is refused as outside slot hours, carries the next slot of that
\* time (none when no slot starts later today) and writes no mark.
C6_OutsideSlotCarriesNextSlot ==
  \A p \in Procs :
    (/\ pc[p] = "done"
     /\ req[p].kind = "mark"
     /\ req[p].force_slot = ""
     /\ Containing(attendance_slots[p], req[p].time) = {})
    => /\ result[p].kind = "outside_slot"
       /\ result[p].next_slot = get_next_slot(attendance_slots[p], req[p].time)
       /\ wrote[p] = 0

\* at 10:00 with only the morning slot configured the hint is none
C6_Witness ==
  \E p \in Procs :
    /\ pc[p] = "done"
    /\ result[p].kind = "outside_slot"
    /\ req[p].time = T(10, 0, 0)
    /\ attendance_slots[p] = load_session_configs(MorningOnlyRows)
    /\ result[p].next_slot = None

----------------------------------------------------------------------------
(* Properties of the slot resolver and the catalog *)

\* C7: current_slot returns the first slot in start-time order whose window
\* [start_time, end_time] contains t, both ends inclusive, and none when no
\* slot contains t.
C7_CurrentSlotFirstByStartTime ==
  response.kind = "slots" =>
    LET slots == response.slots
        c == Containing(slots, response.check_time)
    IN IF c = {}
         THEN response.current_slot = None
         ELSE \E i \in c :
                /\ response.current_slot.slot_key = slots[i].slot_id
                /\ \A j \in c : slots[i].start_time <= slots[j].start_time

Later(slots, t) == {i \in 1 .. Len(slots) : slots[i].start_time > t}

Wait(slot, t) == (slot.start_time \div 60) - (t \div 60)

\* C8: next_slot returns, among the slots that start strictly later than t
\* on the same day, one with the smallest wait, together with that wait in
\* minutes; it returns none when no slot starts later today.
C8_NextSlotSmallestWait ==
  response.kind = "slots" =>
    LET slots == response.slots
        t == response.check_time
        l == Later(slots, t)
    IN IF l = {}
         THEN response.next_slot = None
         ELSE \E i \in l :
                /\ response.next_slot.slot_key = slots[i].slot_id
                /\ response.next_slot.minutes = Wait(slots[i], t)
                /\ \A j \in l : Wait(slots[i], t) <= Wait(slots[j], t)

\* at 12:00 the default catalog answers afternoon, 105 minutes away
C8_Witness ==
  /\ response.kind = "slots"
  /\ response.before = DefaultRows
  /\ response.check_time = T(12, 0, 0)
  /\ response.next_slot = [slot_key |-> "afternoon", minutes |-> 105]

\* C9: an update whose new range is a valid range and intersects some other
\* active slot, whatever that slot's id, is refused as an overlap and leaves
\* the stored and the in-memory catalog as they were.
C9_UpdateRejectsEveryOverlap ==
  (/\ response.kind = "update"
   /\ valid_format(response.start_time) /\ valid_format(response.end_time)
   /\ strptime(response.start_time) < strptime(response.end_time)
   /\ RowsOfType(response.before, response.session_type) # {}
   /\ \E i \in 1 .. Len(response.before) :
        /\ response.before[i].session_type # response.session_type
        /\ ~(strptime(response.end_time) <= strptime(response.before[i].start_time)
             \/ strptime(response.start_time) >= strptime(response.before[i].end_time)))
  => /\ response.msg = "overlap"
     /\ response.rows = response.before
     /\ response.slots = load_session_configs(response.before)

WellFormedRows(rows) ==
  /\ \A i \in 1 .. Len(rows) :
       strptime(rows[i].start_time) < strptime(rows[i].end_time)
  /\ \A i, j \in 1 .. Len(rows) :
       i # j => \/ strptime(rows[i].end_time) <= strptime(rows[j].start_time)
                \/ strptime(rows[j].end_time) <= strptime(rows[i].start_time)

WellFormedSlots(slots) ==
  /\ \A i \in 1 .. Len(slots) : slots[i].start_time < slots[i].end_time
  /\ \A i, j \in 1 .. Len(slots) :
       i # j => \/ slots[i].end_time <= slots[j].start_time
                \/ slots[j].end_time <= slots[i].start_time

\* C10: starting from the default catalog, after any sequence of update and
\* reload calls no two distinct active slots overlap and every active slot
\* starts before it ends, in the store and in every manager's catalog.
C10_CatalogWellFormed ==
  /\ WellFormedRows(session_configs)
  /\ \A c \in Conns : WellFormedSlots(attendance_slots[c])

\* an update was applied, and the other slot now touches the updated one
C10_Witness ==
  /\ response.kind = "update"
  /\ response.ok
  /\ session_configs # DefaultRows
  /\ \E i, j \in 1 .. Len(session_configs) :
       i # j /\ session_configs[i].end_time = session_configs[j].start_time

----------------------------------------------------------------------------
(* The administrative marking paths, one request at a time: the forced-slot  *)
(* call of POST /api/attendance/manual-slot and mark_manual_session_attendance *)
(* of POST /api/attendance/manual/session, on a store whose holidays table   *)
(* and students table were filled before                                     *)

AdminProcs == {"w1"}
AdminSessionTypes == {"morning", "library"}
StudentStates == {"active", "none"}     \* "none": no row with that id

InitAdmin ==
  /\ session_configs \in InitialCatalogs
  /\ students \in [StudentIds -> StudentStates]
  /\ holidays \in SUBSET Dates
  /\ slot_attendance = <<>>
  /\ attendance = <<>>
  /\ daily_summary = [d \in Dates |-> NoRow]
  /\ db_writer = NoWriter
  /\ now = [day |-> 1, tod |-> T(9, 0, 0)]
  /\ pc = [p \in Procs |-> "idle"]
  /\ req = [p \in Procs |-> NoReq]
  /\ attendance_slots = [c \in Conns |-> <<>>]
  /\ txn = [p \in Procs |-> NoTransaction]
  /\ result = [p \in Procs |-> NoResult]
  /\ wrote = [p \in Procs |-> 0]
  /\ calls = 0
  /\ response = NoResult
  /\ ACTIVE_SESSIONS = NoSessions

AdminMarkStep(p) ==
  \/ \E sid \in StudentIds, force \in ForceSlots : mark_begin(p, sid, force)
  \/ mark_check_existing(p)
  \/ mark_insert(p)
  \/ mark_commit(p)
  \/ summary_write(p)

AdminManualStep(p) ==
  \/ \E sid \in StudentIds, d \in Dates, type \in AdminSessionTypes :
       manual_begin(p, sid, d, type)
  \/ manual_insert(p)
  \/ manual_commit(p)

NextAdmin ==
  \/ \E p \in AdminProcs : AdminMarkStep(p)
  \/ \E p \in AdminProcs : AdminManualStep(p)
  \/ \E s \in DeleteIds : delete_student(s)
  \/ Tick

SpecAdmin == InitAdmin /\ [][NextAdmin]_vars

\* the call of worker p has returned
Returned(p, kind) == pc[p] = "done" /\ req[p].kind = kind

\* C11: an administrative mark for a date that is a configured holiday, made
\* through mark_manual or through the forced-slot call for a student with an
\* active row and a slot of the catalog, is refused as a holiday and writes
\* no mark.
C11_AdminMarksRespectHolidays ==
  \A p \in Procs :
    (/\ pc[p] = "done"
     /\ \/ req[p].kind = "manual"
        \/ req[p].kind = "mark" /\ req[p].force_slot # ""
     /\ req[p].date \in holidays
     /\ students[req[p].student_id] = "active"
     /\ req[p].slot_id \in SlotKeys(load_session_configs(session_configs)))
    => result[p].kind = "holiday" /\ wrote[p] = 0

\* C12: every row that mark_manual commits to the ledger carries a slot_id of
\* the catalog and the id of a student with an active row, because the call
\* refuses an unknown slot and an unknown student as the forced-slot call
\* does.
C12_ManualAppliesAdmissionChecks ==
  [][\A p \in Procs :
       (req[p].kind = "manual" /\ Len(slot_attendance') > Len(slot_attendance))
       => LET row == slot_attendance'[Len(slot_attendance')]
          IN /\ row.slot_id \in SlotKeys(load_session_configs(
                                            ensure_default_configs(session_configs)))
             /\ students[row.student_id] = "active"]_vars

\* C13: a mark call whose slot resolves (a forced slot of the catalog, or a
\* slot containing the time of the call) and whose student has no active row
\* returns student-not-found and writes no mark.
C13_UnknownStudentIsRefused ==
  [][\A p \in Procs :
       (/\ pc[p] \in {"idle", "done"}
        /\ req'[p] # req[p] \/ calls' # calls
        /\ req'[p].kind = "mark"
        /\ IF req'[p].force_slot # ""
             THEN req'[p].force_slot \in SlotKeys(attendance_slots'[p])
             ELSE Containing(attendance_slots'[p], now.tod) # {}
        /\ students[req'[p].student_id] # "active")
       => /\ pc'[p] = "done"
          /\ result'[p].kind = "student_not_found"
          /\ wrote'[p] = 0
          /\ slot_attendance' = slot_attendance]_vars

\* a call inside the morning slot for an id without a row was refused
C13_Witness ==
  \E p \in Procs :
    /\ Returned(p, "mark")
    /\ result[p].kind = "student_not_found"
    /\ req[p].force_slot = ""
    /\ students[req[p].student_id] = "none"
    /\ slot_attendance = <<>>

\* C14: a mark call with a forced slot that is not in the catalog returns
\* invalid-slot and writes no mark, at any time of day; with a forced slot of
\* the catalog it is never refused as outside slot hours, and when it
\* succeeds its one mark is recorded under the forced slot_id.
C14_ForcedSlotIsValidatedAndBypassesWindow ==
  \A p \in Procs :
    (Returned(p, "mark") /\ req[p].force_slot # "")
    => IF req[p].force_slot \notin SlotKeys(attendance_slots[p])
         THEN result[p].kind = "invalid_slot" /\ wrote[p] = 0
         ELSE /\ result[p].kind # "outside_slot"
              /\ req[p].slot_id = req[p].force_slot
              /\ result[p].kind = "success"
                   => /\ wrote[p] = 1
                      /\ HasMark(slot_attendance, req[p].student_id,
                                 req[p].date, req[p].force_slot)

\* at 10:00, outside every window, a forced morning mark was recorded
C14_Witness ==
  \E p \in Procs :
    /\ Returned(p, "mark")
    /\ req[p].force_slot = "morning"
    /\ req[p].time = T(10, 0, 0)
    /\ Containing(attendance_slots[p], req[p].time) = {}
    /\ result[p].kind = "success"
    /\ HasMark(slot_attendance, req[p].student_id, req[p].date, "morning")

----------------------------------------------------------------------------
(* AttendanceQueryService: get_live_student_count of the slot manager and    *)
(* get_student_slot_attendance_data of the main service, asked between       *)
(* manual marks, holiday entries and student deletions                       *)

QuerySessionTypes == {"morning", "evening"}

\* the dates the administrator marks and asks about: the first day of the
\* calendar and today
MarkDates == {1, MaxDay}
HolidayDates == {1}

\* date.weekday(), Monday = 0 .. Sunday = 6; day 1 of the calendar is a
\* Saturday
weekday(d) == (d + 4) % 7

\* POST /api/holidays: add_holiday, refused when the date is there already
add_holiday(d) ==
  /\ d \notin holidays
  /\ db_writer = NoWriter
  /\ holidays' = holidays \cup {d}
  /\ UNCHANGED <<session_configs, students, slot_attendance, attendance,
                 daily_summary, db_writer, now, pc, req, attendance_slots,
                 txn, result, wrote, calls, response, ACTIVE_SESSIONS>>

\* slot_counts.get(slot_id, 0) over SELECT slot_id, COUNT(DISTINCT student_id)
\* ... GROUP BY slot_id
slot_count(rows, d, k) == Cardinality(PresentIn(rows, d, k))

\* get_live_student_count(date_str) on a new manager
get_live_student_count(d) ==
  LET before == ensure_default_configs(session_configs)
      slots == load_session_configs(before)
      total_students == Cardinality(ActiveStudents)
      total_present == Cardinality(Present(slot_attendance, d))
  IN /\ session_configs = <<>> => db_writer = NoWriter
     /\ session_configs' = before
     /\ attendance_slots' = [attendance_slots EXCEPT ![Admin] = slots]
     /\ response' = [kind |-> "live", date |-> d, slots |-> slots,
                     ledger |-> slot_attendance, active |-> ActiveStudents,
                     total_students |-> total_students,
                     total_present |-> total_present,
                     total_absent |-> total_students - total_present,
                     morning_present |-> slot_count(slot_attendance, d, "morning"),
                     afternoon_present |-> slot_count(slot_attendance, d, "afternoon"),
                     current_slot |-> get_current_slot(slots, now.tod),
                     next_slot |-> get_next_slot(slots, now.tod)]
     /\ UNCHANGED ledger_vars

\* line 829: session_type = 'morning' if slot_id == 'morning' else 'afternoon'
session_type_of(slot_id) == IF slot_id = "morning" THEN "morning" ELSE "afternoon"

\* lines 819-830: slot_summary[date_str], the session types of the student's
\* records of that date
slot_summary(rows, sid, d) ==
  {session_type_of(rows[i].slot_id) :
     i \in {j \in 1 .. Len(rows) : rows[j].student_id = sid /\ rows[j].date = d}}

is_skipped_SundayOnly(d, holiday_dates) == weekday(d) = 6

\* line 842: current_date.weekday() == 6 or current_date in holiday_dates
is_skipped(d, holiday_dates) == weekday(d) = 6 \/ d \in holiday_dates

\* lines 848-862: the status of a working day
day_status(sessions) ==
  IF "morning" \in sessions /\ "afternoon" \in sessions THEN "present"
  ELSE IF "morning" \in sessions \/ "afternoon" \in sessions THEN "partial"
  ELSE "absent"

\* get_student_slot_attendance_data: the loop from start_date to end_date
\* and the statistics; days the loop skips have no entry ("skipped")
history(rows, sid, holiday_dates, start_date, end_date) ==
  LET range == start_date .. end_date
      working == {d \in range : ~is_skipped(d, holiday_dates)}
      attendance_dict == [d \in range |->
                            IF d \in working
                              THEN day_status(slot_summary(rows, sid, d))
                              ELSE "skipped"]
      full_days == Cardinality({d \in working : attendance_dict[d] = "present"})
      half_days == Cardinality({d \in working : attendance_dict[d] = "partial"})
      total_working_days == Cardinality(working)
  IN [attendance |-> attendance_dict,
      full_days |-> full_days,
      half_days |-> half_days,
      absent_days |-> total_working_days - full_days - half_days,
      total_working_days |-> total_working_days]

\* GET /api/attendance/student/{student_id}/slots, for a student who joined
\* on day 1; the range ends today
get_student_slot_attendance_data(sid) ==
  /\ response' = [kind |-> "history", student_id |-> sid,
                  start_date |-> 1, end_date |-> now.day,
                  configs |-> session_configs, ledger |-> slot_attendance,
                  holidays |-> holidays,
                  data |-> history(slot_attendance, sid, holidays, 1, now.day)]
  /\ UNCHANGED <<session_configs, attendance_slots, ACTIVE_SESSIONS>>
  /\ UNCHANGED ledger_vars

InitQuery ==
  /\ session_configs \in InitialCatalogs
  /\ students = [s \in StudentIds |-> "active"]
  /\ holidays = {}
  /\ slot_attendance = <<>>
  /\ attendance = <<>>
  /\ daily_summary = [d \in Dates |-> NoRow]
  /\ db_writer = NoWriter
  /\ now = [day |-> MaxDay, tod |-> T(9, 0, 0)]
  /\ pc = [p \in Procs |-> "idle"]
  /\ req = [p \in Procs |-> NoReq]
  /\ attendance_slots = [c \in Conns |-> <<>>]
  /\ txn = [p \in Procs |-> NoTransaction]
  /\ result = [p \in Procs |-> NoResult]
  /\ wrote = [p \in Procs |-> 0]
  /\ calls = 0
  /\ response = NoResult
  /\ ACTIVE_SESSIONS = NoSessions

QueryManualStep(p) ==
  \/ \E sid \in StudentIds, d \in MarkDates, type \in QuerySessionTypes :
       manual_begin(p, sid, d, type)
  \/ manual_insert(p)
  \/ manual_commit(p)

NextQuery ==
  \/ \E p \in AdminProcs : QueryManualStep(p)
  \/ \E d \in HolidayDates : add_holiday(d)
  \/ \E s \in DeleteIds : delete_student(s)
  \/ \E d \in MarkDates : get_live_student_count(d)
  \/ \E sid \in StudentIds : get_student_slot_attendance_data(sid)

SpecQuery == InitQuery /\ [][NextQuery]_vars

----------------------------------------------------------------------------
(* Properties of the query service *)

\* the students with a mark on date d in slot k
MarkedIn(rows, d, k) == {s \in StudentIds : HasMark(rows, s, d, k)}

\* the per-slot counts a live-count result carries, by slot_id
per_slot_present(r) ==
  [k \in {"morning", "afternoon"} |->
     IF k = "morning" THEN r.morning_present ELSE r.afternoon_present]

\* C15: live_count(date) returns as total_present the number of distinct
\* students with a mark on that date in any slot, for every configured slot
\* the number of distinct students marked in it, as total_students the number
\* of active students and as total_absent their difference.
C15_LiveCountPerConfiguredSlot ==
  response.kind = "live" =>
    LET d == response.date
        rows == response.ledger
    IN /\ response.total_present
            = Cardinality({s \in StudentIds :
                             \E k \in {rows[i].slot_id : i \in 1 .. Len(rows)} :
                               HasMark(rows, s, d, k)})
       /\ \A k \in SlotKeys(response.slots) :
            /\ k \in DOMAIN per_slot_present(response)
            /\ per_slot_present(response)[k] = Cardinality(MarkedIn(rows, d, k))
       /\ response.total_students = Cardinality(response.active)
       /\ response.total_absent
            = response.total_students - response.total_present

\* C16: student_history classifies each working day of the range against the
\* configured catalog: full when the student has a mark in every configured
\* slot, partial when in some but not all, absent when in none.
C16_HistoryClassifiesAgainstCatalog ==
  (response.kind = "history" /\ response.configs # <<>>) =>
    LET configured == {response.configs[i].session_type :
                         i \in 1 .. Len(response.configs)}
    IN \A d \in response.start_date .. response.end_date :
         (weekday(d) # 6 /\ d \notin response.holidays) =>
           LET marked == {k \in configured :
                            HasMark(response.ledger, response.student_id, d, k)}
           IN response.data.attendance[d]
                = IF marked = configured THEN "present"
                  ELSE IF marked # {} THEN "partial"
                  ELSE "absent"

\* C17: in student_history every Sunday and every configured holiday of the
\* range has no classification and is not counted as a working day, marks or
\* not, and full_days + half_days + absent_days = total_working_days, each
\* being the number of working days so classified.
C17_NonWorkingDaysAreExcluded ==
  response.kind = "history" =>
    LET range == response.start_date .. response.end_date
        data == response.data
        excluded == {d \in range : weekday(d) = 6 \/ d \in response.holidays}
        count(status) ==
          Cardinality({d \in range \ excluded : data.attendance[d] = status})
    IN /\ \A d \in excluded : data.attendance[d] = "skipped"
       /\ data.total_working_days = Cardinality(range \ excluded)
       /\ data.full_days = count("present")
       /\ data.half_days = count("partial")
       /\ data.absent_days = count("absent")
       /\ data.full_days + data.half_days + data.absent_days
            = data.total_working_days

\* the range holds a holiday and a Sunday, and the student has marks on both
C17_Witness ==
  /\ response.kind = "history"
  /\ \E d \in response.start_date .. response.end_date :
       /\ d \in response.holidays
       /\ weekday(d) # 6
       /\ \E k \in QuerySessionTypes :
            HasMark(response.ledger, response.student_id, d, k)
  /\ \E d \in response.start_date .. response.end_date :
       /\ weekday(d) = 6
       /\ \E k \in QuerySessionTypes :
            HasMark(response.ledger, response.student_id, d, k)

----------------------------------------------------------------------------
(* The whole service, one request at a time: marks, forced marks, manual     *)
(* marks, the projector called on its own, catalog updates and reloads, and  *)
(* student deletions                                                         *)

\* update_daily_summary(date_str) called on a new manager; when another
\* connection holds the write lock the INSERT OR REPLACE fails and lines
\* 526-527 swallow the error.  The response notes what the call read, and
\* whether the request before it was the same call on the same marks and
\* students.
update_daily_summary(d) ==
  LET before == ensure_default_configs(session_configs)
  IN /\ session_configs = <<>> => db_writer = NoWriter
     /\ session_configs' = before
     /\ attendance_slots' = [attendance_slots EXCEPT
                               ![Admin] = load_session_configs(before)]
     /\ daily_summary' = IF db_writer = NoWriter
                           THEN [daily_summary EXCEPT ![d] = SummaryCounts(d)]
                           ELSE daily_summary
     /\ response' = [kind |-> "recompute", date |-> d,
                     marks |-> Len(slot_attendance),
                     active |-> ActiveStudents,
                     repeat |-> /\ response.kind = "recompute"
                                /\ response.date = d
                                /\ response.marks = Len(slot_attendance)
                                /\ response.active = ActiveStudents]
     /\ UNCHANGED <<students, holidays, slot_attendance, attendance,
                    db_writer, now, pc, req, txn, result, wrote, calls,
                    ACTIVE_SESSIONS>>

ServiceForceSlots == {"", "morning"}

ServiceMarkStep(p) ==
  \/ \E sid \in StudentIds, force \in ServiceForceSlots :
       mark_begin(p, sid, force)
  \/ mark_check_existing(p)
  \/ mark_insert(p)
  \/ mark_commit(p)
  \/ summary_write(p)

ServiceManualStep(p) ==
  \/ \E sid \in StudentIds, d \in MarkDates, type \in ManualSessionTypes :
       manual_begin(p, sid, d, type)
  \/ manual_insert(p)
  \/ manual_commit(p)

\* the administrator moves the afternoon session to 10:00-11:00
ServiceUpdateRequest == update_session_timing("afternoon", HM(10, 0), HM(11, 0))

NextService ==
  \/ \E p \in AdminProcs : ServiceMarkStep(p)
  \/ \E p \in AdminProcs : ServiceManualStep(p)
  \/ \E d \in MarkDates : update_daily_summary(d)
  \/ ServiceUpdateRequest
  \/ reload_config
  \/ \E s \in DeleteIds : delete_student(s)

SpecService == InitDefault /\ [][NextService]_vars

C19_MarkedIsTerminal ==
  [][\A i \in 1 .. Len(slot_attendance) :
       /\ i <= Len(slot_attendance')
       /\ slot_attendance'[i] = slot_attendance[i]]_vars

\* the projector ran with marks in the ledger, and the mark of a student
\* deleted since is still there
C19_Witness ==
  /\ response.kind = "recompute"
  /\ response.marks >= 1
  /\ \E i \in 1 .. Len(slot_attendance) :
       students[slot_attendance[i].student_id] = "none"
  /\ session_configs # DefaultRows

----------------------------------------------------------------------------
(* Properties of catalog updates *)

\* C20: an update with well-formed times whose start is not before its end
\* is refused as an invalid range and leaves the stored and the in-memory
\* catalog as they were; an update that succeeds leaves the slot's stored
\* times and the times of the manager's reloaded catalog equal to the new
\* values.
C20_UpdateChecksRangeThenPersistsAndReloads ==
  (/\ response.kind = "update"
   /\ valid_format(response.start_time) /\ valid_format(response.end_time))
  => LET s == response.start_time
         e == response.end_time
         mine == RowsOfType(session_configs, response.session_type)
         slots == attendance_slots[Admin]
         loaded == {j \in 1 .. Len(slots) :
                      slots[j].slot_id = response.session_type}
     IN /\ session_configs = response.rows
        /\ slots = response.slots
        /\ s.hh * 60 + s.mm >= e.hh * 60 + e.mm
             => /\ ~response.ok
                /\ response.msg = "invalid_range"
                /\ session_configs = response.before
                /\ slots = load_session_configs(response.before)
        /\ response.ok
             => /\ mine # {}
                /\ \A i \in mine : /\ session_configs[i].start_time = s
                                   /\ session_configs[i].end_time = e
                /\ loaded # {}
                /\ \A j \in loaded :
                     /\ slots[j].start_time = (s.hh * 60 + s.mm) * 60
                     /\ slots[j].end_time = (e.hh * 60 + e.mm) * 60

\* the morning slot was moved to 9:00-10:00 and the manager's catalog shows it
C20_Witness ==
  /\ response.kind = "update"
  /\ response.ok
  /\ response.session_type = "morning"
  /\ response.start_time = H1(9, 0)
  /\ \E j \in 1 .. Len(attendance_slots[Admin]) :
       /\ attendance_slots[Admin][j].slot_id = "morning"
       /\ attendance_slots[Admin][j].start_time = T(9, 0, 0)
       /\ attendance_slots[Admin][j].end_time = T(10, 0, 0)

----------------------------------------------------------------------------
(* A manager loading its catalog while the administrator updates the store:  *)
(* load_session_configs is one SELECT whose rows fetchall() returns          *)
(* together, a dict built from them, and one assignment of the finished dict *)
(* to self.attendance_slots                                                  *)

MorningMoved == Row("morning", HM(10, 0), HM(11, 0))
AfternoonMoved == Row("afternoon", HM(8, 45), HM(9, 30))
ReloadTimes == {T(9, 0, 0), T(10, 30, 0)}

\* lines 77-85: cursor.execute(SELECT ...) and cursor.fetchall()
load_select(p) ==
  /\ pc[p] \in {"idle", "done"}
  /\ req' = [req EXCEPT ![p] = [kind |-> "load", rows |-> session_configs]]
  /\ pc' = [pc EXCEPT ![p] = "loaded"]
  /\ UNCHANGED <<session_configs, students, holidays, slot_attendance,
                 attendance, daily_summary, db_writer, now, attendance_slots,
                 txn, result, wrote, calls, response, ACTIVE_SESSIONS>>

load_assign_RowByRow(p) ==
  /\ pc[p] = "loaded"
  /\ attendance_slots' =
       [attendance_slots EXCEPT ![p] =
          load_session_configs(
            [i \in 1 .. Len(req[p].rows) |->
               IF i = 1 THEN req[p].rows[i] ELSE session_configs[i]])]
  /\ pc' = [pc EXCEPT ![p] = "ready"]
  /\ UNCHANGED <<session_configs, students, holidays, slot_attendance,
                 attendance, daily_summary, db_writer, now, req, txn, result,
                 wrote, calls, response, ACTIVE_SESSIONS>>

\* lines 86-108 and line 152: the dict is built from the fetched rows and
\* assigned to self.attendance_slots
load_assign(p) ==
  /\ pc[p] = "loaded"
  /\ attendance_slots' = [attendance_slots EXCEPT
                            ![p] = load_session_configs(req[p].rows)]
  /\ pc' = [pc EXCEPT ![p] = "ready"]
  /\ UNCHANGED <<session_configs, students, holidays, slot_attendance,
                 attendance, daily_summary, db_writer, now, req, txn, result,
                 wrote, calls, response, ACTIVE_SESSIONS>>

\* get_current_slot(t) and get_next_slot(t) on the manager's catalog
slot_query(p, t) ==
  /\ pc[p] = "ready"
  /\ result' = [result EXCEPT ![p] =
                  [kind |-> "slots", check_time |-> t,
                   current_slot |-> get_current_slot(attendance_slots[p], t),
                   next_slot |-> get_next_slot(attendance_slots[p], t)]]
  /\ pc' = [pc EXCEPT ![p] = "done"]
  /\ UNCHANGED <<session_configs, students, holidays, slot_attendance,
                 attendance, daily_summary, db_writer, now, req,
                 attendance_slots, txn, wrote, calls, response,
                 ACTIVE_SESSIONS>>

\* the administrator moves the morning session to 10:00-11:00 and then the
\* afternoon session into the freed window
ReloadUpdateRequest ==
  \/ update_session_timing("morning", MorningMoved.start_time,
                           MorningMoved.end_time)
  \/ update_session_timing("afternoon", AfternoonMoved.start_time,
                           AfternoonMoved.end_time)

NextReload ==
  \/ \E p \in AdminProcs : load_select(p)
  \/ \E p \in AdminProcs : load_assign(p)
  \/ \E p \in AdminProcs, t \in ReloadTimes : slot_query(p, t)
  \/ ReloadUpdateRequest
  \/ reload_config

SpecReload == InitDefault /\ [][NextReload]_vars

\* the contents session_configs has had: the default rows, then with the
\* morning session moved, then with the afternoon session moved as well
CommittedCatalogs ==
  {DefaultRows,
   <<MorningMoved, DefaultRows[2]>>,
   <<MorningMoved, AfternoonMoved>>}

\* C21: every manager's in-memory catalog is the complete catalog of one
\* committed content of the store, and what current_slot and next_slot
\* answer is their answer on such a catalog, also when updates and reloads
\* ran between the manager's load and its answer.
C21_CallersSeeOneWholeCatalog ==
  /\ session_configs \in CommittedCatalogs
  /\ \A c \in Conns :
       \/ attendance_slots[c] = <<>>
       \/ \E rows \in CommittedCatalogs :
            attendance_slots[c] = load_session_configs(rows)
  /\ \A p \in Procs :
       result[p].kind = "slots" =>
         \E rows \in CommittedCatalogs :
           /\ result[p].current_slot
                = get_current_slot(load_session_configs(rows), result[p].check_time)
           /\ result[p].next_slot
                = get_next_slot(load_session_configs(rows), result[p].check_time)

\* a manager that fetched its rows before the two updates answers on the
\* whole old catalog while the store holds the new one
C21_Witness ==
  \E p \in Procs :
    /\ pc[p] = "done"
    /\ result[p].kind = "slots"
    /\ attendance_slots[p] = load_session_configs(DefaultRows)
    /\ session_configs = <<MorningMoved, AfternoonMoved>>
    /\ attendance_slots[Admin] = load_session_configs(session_configs)

----------------------------------------------------------------------------
(* Properties of the bootstrap and of the read side *)

StoreFailed(p) ==
  /\ req[p].kind = "mark"
  /\ pc'[p] = "done"
  /\ \/ pc[p] \in {"insert", "summary"} /\ db_writer \notin {NoWriter, p}
     \/ pc[p] = "commit" /\ slot_attendance' = slot_attendance

\* C23: a mark call in which a statement on the store failed returns the
\* store error, which is none of the recoverable results, and has written
\* no mark.
C23_StoreFailureIsReported ==
  [][\A p \in Procs :
       StoreFailed(p)
       => /\ result'[p].kind = "error"
          /\ result'[p].detail \in {"locked", "store"}
          /\ wrote'[p] = 0]_vars

\* C24: serving current_slot and next_slot, live_count or student_history,
\* the construction of the manager that serves the request included, leaves
\* the slot configuration, the ledger, the holidays and the daily summary
\* as they were.
C24_ReadSideWritesNothing ==
  [][(response' # response /\ response'.kind \in {"slots", "live", "history"})
     => /\ session_configs' = session_configs
        /\ slot_attendance' = slot_attendance
        /\ holidays' = holidays
        /\ daily_summary' = daily_summary]_vars


-----------------------------------------------------------------------------
(* The legacy per-day attendance table: the compatibility row written by    *)
(* every slot mark, the face detection of POST /api/detect that still marks *)
(* into it, and the dashboard that counts its rows                          *)

LegacyForceSlots == {"", "afternoon"}

\* SELECT id FROM attendance WHERE student_id = ? AND date = ?
legacy_marked(rows, sid, d) ==
  \E i \in 1 .. Len(rows) : rows[i].student_id = sid /\ rows[i].date = d

\* lines 1548-1566 of detect_attendance, for one recognised student: the
\* check on the attendance table, then the INSERT and the commit on the
\* long-lived connection; the handler does not yield in between
detect_attendance(sid) ==
  LET seen == legacy_marked(attendance, sid, now.day)
      locked == db_writer # NoWriter
  IN /\ student_active(sid)
     /\ attendance' = IF seen \/ locked
                        THEN attendance
                        ELSE Append(attendance, LegacyRow(sid, now.day))
     /\ response' = [kind |-> "detect", student_id |-> sid,
                     status |-> IF seen THEN "already_marked"
                                ELSE IF locked THEN "failed" ELSE "marked"]
     /\ UNCHANGED <<session_configs, students, holidays, slot_attendance,
                    daily_summary, db_writer, now, pc, req, attendance_slots,
                    txn, result, wrote, calls, ACTIVE_SESSIONS>>

\* SELECT COUNT(*) FROM attendance WHERE date = ?
present_today(rows, d) ==
  Cardinality({i \in 1 .. Len(rows) : rows[i].date = d})

\* GET /api/dashboard/stats
get_dashboard_stats ==
  LET total_students == Cardinality(ActiveStudents)
      present == present_today(attendance, now.day)
  IN /\ response' = [kind |-> "dashboard", date |-> now.day,
                     legacy |-> attendance,
                     total_students |-> total_students,
                     present_today |-> present,
                     absent_today |-> total_students - present]
     /\ UNCHANGED <<session_configs, students, holidays, slot_attendance,
                    attendance, daily_summary, db_writer, now, pc, req,
                    attendance_slots, txn, result, wrote, calls,
                    ACTIVE_SESSIONS>>

LegacyMarkStep(p) ==
  \/ \E sid \in StudentIds, force \in LegacyForceSlots :
       mark_begin(p, sid, force)
  \/ mark_check_existing(p)
  \/ mark_insert(p)
  \/ mark_commit(p)
  \/ summary_write(p)

NextLegacy ==
  \/ \E p \in AdminProcs : LegacyMarkStep(p)
  \/ \E sid \in StudentIds : detect_attendance(sid)
  \/ get_dashboard_stats

SpecLegacy == InitDefault /\ [][NextLegacy]_vars

\* C29: the legacy attendance table holds at most one row per
\* (student_id, date) after any sequence of slot marks and legacy
\* detections, so the dashboard counts a student marked in two slots once
\* in present_today and absent_today is never negative.
C29_LegacyOneRowPerStudentDay ==
  /\ \A i, j \in 1 .. Len(attendance) :
       (/\ attendance[i].student_id = attendance[j].student_id
        /\ attendance[i].date = attendance[j].date) => i = j
  /\ response.kind = "dashboard" =>
       /\ response.present_today
            = Cardinality({s \in StudentIds :
                             legacy_marked(response.legacy, s, response.date)})
       /\ response.absent_today >= 0

-----------------------------------------------------------------------------
(* Sessions: login, logout and the admin guard of the catalog update *)

\* datetime a > datetime b
after(a, b) == a.day > b.day \/ (a.day = b.day /\ a.tod > b.tod)

\* datetime.now() + timedelta(hours=SESSION_TIMEOUT_HOURS), 24 hours later
expires_at(t) == [day |-> t.day + 1, tod |-> t.tod]

expired(session) == after(now, session.expires_at)

\* SessionManager.create_session, called by a successful login
create_session(user_type) ==
  \E tok \in Tokens :
    /\ ACTIVE_SESSIONS[tok] = NoSession
    /\ ACTIVE_SESSIONS' = [ACTIVE_SESSIONS EXCEPT
                             ![tok] = [user_type |-> user_type,
                                       expires_at |-> expires_at(now)]]
    /\ response' = [kind |-> "login", token |-> tok, user_type |-> user_type]
    /\ UNCHANGED <<session_configs, students, holidays, slot_attendance,
                   attendance, daily_summary, db_writer, now, pc, req,
                   attendance_slots, txn, result, wrote, calls>>

\* SessionManager.validate_session: the session it returns, NoSession for
\* None
validate_session(sessions, session_token) ==
  IF session_token = NoCookie THEN NoSession
  ELSE IF sessions[session_token] = NoSession THEN NoSession
  ELSE IF expired(sessions[session_token]) THEN NoSession
  ELSE sessions[session_token]

\* line 143: validate_session deletes the session it finds expired
validated(sessions, session_token) ==
  IF /\ session_token # NoCookie
     /\ sessions[session_token] # NoSession
     /\ expired(sessions[session_token])
    THEN [sessions EXCEPT ![session_token] = NoSession]
    ELSE sessions

\* SessionManager.cleanup_expired_sessions
cleanup_expired_sessions(sessions) ==
  [tok \in Tokens |->
     IF sessions[tok] # NoSession /\ expired(sessions[tok])
       THEN NoSession
       ELSE sessions[tok]]

\* require_admin_access on the session get_current_session returned: the
\* HTTP status it raises, or "ok"
require_admin_access(session) ==
  IF session = NoSession THEN "401"
  ELSE IF session.user_type # "admin" THEN "403"
  ELSE "ok"

\* POST /api/logout for a request whose cookie is session_token
logout(session_token) ==
  LET session == validate_session(ACTIVE_SESSIONS, session_token)
      sessions == validated(ACTIVE_SESSIONS, session_token)
  IN /\ ACTIVE_SESSIONS' = IF session # NoSession
                             THEN cleanup_expired_sessions(sessions)
                             ELSE sessions
     /\ response' = [kind |-> "logout", token |-> session_token,
                     valid |-> session # NoSession, success |-> TRUE]
     /\ UNCHANGED <<session_configs, students, holidays, slot_attendance,
                    attendance, daily_summary, db_writer, now, pc, req,
                    attendance_slots, txn, result, wrote, calls>>

\* PUT /api/admin/session-config/{session_type} for a request whose cookie
\* is session_token
update_session_configuration(session_token, session_type, start_time, end_time) ==
  LET access == require_admin_access(
                  validate_session(ACTIVE_SESSIONS, session_token))
  IN IF access = "ok"
       THEN update_session_timing(session_type, start_time, end_time)
       ELSE /\ ACTIVE_SESSIONS' = validated(ACTIVE_SESSIONS, session_token)
            /\ response' = [kind |-> "refused", token |-> session_token,
                            status |-> access]
            /\ UNCHANGED <<session_configs, students, holidays,
                           slot_attendance, attendance, daily_summary,
                           db_writer, now, pc, req, attendance_slots, txn,
                           result, wrote, calls>>

\* the wall clock moves on, into the next day as well
clock ==
  /\ \E d \in Dates, t \in MainTimes :
       /\ after([day |-> d, tod |-> t], now)
       /\ now' = [day |-> d, tod |-> t]
  /\ UNCHANGED <<session_configs, students, holidays, slot_attendance,
                 attendance, daily_summary, db_writer, pc, req,
                 attendance_slots, txn, result, wrote, calls, response,
                 ACTIVE_SESSIONS>>

NextSession ==
  \/ \E user_type \in UserTypes : create_session(user_type)
  \/ \E session_token \in Cookies : logout(session_token)
  \/ \E session_token \in Cookies :
       update_session_configuration(session_token, "afternoon",
                                    HM(10, 0), HM(11, 0))
  \/ clock

SpecSession == InitDefault /\ [][NextSession]_vars

\* C30: once POST /api/logout has completed for a request carrying a valid
\* session token, that token is no longer in the active-session map,
\* validate_session rejects it and require_admin_access refuses a request
\* that presents it.
C30_LogoutEndsTheSession ==
  (response.kind = "logout" /\ response.valid) =>
    /\ ACTIVE_SESSIONS[response.token] = NoSession
    /\ validate_session(ACTIVE_SESSIONS, response.token) = NoSession
    /\ require_admin_access(
         validate_session(ACTIVE_SESSIONS, response.token)) = "401"

\* r is the number of minutes from time t to time e, a started minute
\* counting as one, and 0 when t is after e (times in seconds)
MinutesUntil(r, t, e) ==
  IF t <= e THEN (r - 1) * 60 < e - t /\ e - t <= r * 60
  ELSE r = 0

\* C25: time_remaining(slot, t) is the number of minutes from t to the
\* slot's end_time when t is not after it and 0 otherwise, is never
\* negative, and for the slot current_slot returns at t it is at most the
\* slot's length in minutes.
C25_TimeRemaining ==
  /\ \A t \in QueryTimes :
       \A i \in 1 .. Len(attendance_slots[Admin]) :
         LET r == calculate_time_remaining(t, attendance_slots[Admin][i].end_time)
         IN r >= 0 /\ MinutesUntil(r, t, attendance_slots[Admin][i].end_time)
  /\ (response.kind = "slots" /\ response.current_slot # None)
       => \E i \in 1 .. Len(response.slots) :
            /\ response.slots[i].slot_id = response.current_slot.slot_key
            /\ MinutesUntil(response.current_slot.minutes, response.check_time,
                            response.slots[i].end_time)
            /\ response.current_slot.minutes >= 0
            /\ response.current_slot.minutes
                 <= (response.slots[i].end_time \div 60)
                    - (response.slots[i].start_time \div 60)

\* at 14:30:00 the afternoon slot is current with 0 minutes left, and the
\* morning slot ended hours ago
C25_Witness ==
  /\ response.kind = "slots"
  /\ response.check_time = T(14, 30, 0)
  /\ response.current_slot = [slot_key |-> "afternoon", minutes |-> 0]
  /\ \E i \in 1 .. Len(attendance_slots[Admin]) :
       /\ attendance_slots[Admin][i].end_time < response.check_time
       /\ calculate_time_remaining(response.check_time,
                                   attendance_slots[Admin][i].end_time) = 0


\* C26: when two slots of the loaded catalog both contain the time t,
\* current_slot returns the one with the earlier start_time, whatever order
\* the two were created or last updated in.
C26_TieBreakByEarlierStart ==
  response.kind = "slots" =>
    \A i, j \in Containing(response.slots, response.check_time) :
      response.slots[i].start_time < response.slots[j].start_time
        => /\ response.current_slot # None
           /\ response.current_slot.slot_key # response.slots[j].slot_id


\* C27: in every catalog reached from the default catalog through accepted
\* updates, at most one slot contains any time of day t under
\* current_slot's inclusive test start_time <= t <= end_time.
C27_AtMostOneSlotContainsT ==
  \A c \in Conns :
    \A t \in QueryTimes :
      Cardinality(Containing(attendance_slots[c], t)) <= 1


\* C28: after any sequence of marks and student deletions, the live count
\* and every stored daily summary satisfy 0 <= total_present <=
\* total_students, so total_absent is never negative.
C28_PresentWithinStudents ==
  /\ \A d \in Dates :
       daily_summary[d] # NoRow =>
         /\ 0 <= daily_summary[d].total_present
         /\ daily_summary[d].total_present <= daily_summary[d].total_students
  /\ response.kind = "live" =>
       /\ 0 <= response.total_present
       /\ response.total_present <= response.total_students
       /\ response.total_absent >= 0

====
